---- MODULE Spec2Model ----
(***************************************************************************)
(* The area presence binary sensor of magic_areas                          *)
(* (custom_components/magic_areas/binary_sensor.py): the occupancy state   *)
(* machine of one area, its clear-timeout timer and the notification it    *)
(* publishes after each evaluation.                                        *)
(*                                                                         *)
(* Time is a wall clock in whole seconds (datetime.utcnow()).  Callbacks   *)
(* run one at a time on the event loop, so each handler is one action.     *)
(***************************************************************************)
EXTENDS Integers, FiniteSets, Sequences, TLC

\* ------------------------------------------------------------------ bounds

\* The clock stops advancing at MaxTime.
MaxTime == 4

\* The area has at most MaxEntities binary sensors.
MaxEntities == 3

\* ----------------------------------------------------------- configuration

\* area.config.get(CONF_CLEAR_TIMEOUT), seconds
ClearTimeout == 2
\* CONF_SECONDARY_STATES / CONF_EXTENDED_TIME, seconds
ExtendedTime == 2
\* CONF_SECONDARY_STATES / CONF_EXTENDED_TIMEOUT, seconds
ExtendedTimeout == 3
\* CONF_SECONDARY_STATES / CONF_SLEEP_TIMEOUT, seconds
SleepTimeout == 1

AREA_STATE_CLEAR == "clear"
AREA_STATE_OCCUPIED == "occupied"
AREA_STATE_EXTENDED == "extended"
AREA_STATE_DARK == "dark"
AREA_STATE_BRIGHT == "bright"
AREA_STATE_SLEEP == "sleep"

STATE_ON == "on"
\* area.config.get(CONF_ON_STATES): the values that count as presence
CONF_ON_STATES == {"on", "home"}
INVALID_STATES == {"unavailable", "unknown"}

\* The tracked presence sensors (self.sensors): a motion sensor and a device
\* tracker, and the values each reports.
Sensors == {"binary_sensor.motion", "device_tracker.phone"}
SensorValues(s) ==
    IF s = "binary_sensor.motion" THEN {"on", "off"} ELSE {"home", "not_home"}

\* hass.states.get(entity_id) is None: the entity is not in the state machine.
NoEntity == "<none>"
\* The values a secondary-state entity reports.
EntityValues == {"on", "off", "unavailable", NoEntity}

\* CONFIGURABLE_AREA_STATE_MAP: the overlay states bound to an entity.
ConfigurableStates == {AREA_STATE_SLEEP, AREA_STATE_DARK}
\* The configured target value of each overlay (CONF_SLEEP_STATE, CONF_DARK_STATE).
ConfiguredValue(configurable_state) ==
    IF configurable_state = AREA_STATE_DARK THEN "On" ELSE "on"

\* str.lower() on the strings of the model.
Lower(s) ==
    CASE s = "On" -> "on"
      [] s = "ON" -> "on"
      [] s = "Off" -> "off"
      [] OTHER -> s

\* No timer handle (clear_timeout_callback is None).
None == 0

\* The state sets a previous run may have persisted in ATTR_STATES
\* (the empty one when the attribute is absent).
RestoredStates ==
    { {},
      {AREA_STATE_CLEAR, AREA_STATE_DARK},
      {AREA_STATE_OCCUPIED, AREA_STATE_DARK},
      {AREA_STATE_OCCUPIED, AREA_STATE_EXTENDED, AREA_STATE_BRIGHT} }

\* The features with binary sensors of their own.
CONF_FEATURE_AGGREGATION == "aggregates"
CONF_FEATURE_HEALTH == "health"

\* The device classes of the area's binary sensors, and those among them that
\* the health sensor tracks.
DeviceClasses == {"motion", "smoke", "gas"}
DISTRESS_SENSOR_CLASSES == {"smoke", "gas"}

\* The binary sensors area.entities[BINARY_SENSOR_DOMAIN] may list.
EntityIds == 1..MaxEntities
\* The entity is not in the area.
NoSensor == "<no sensor>"
\* ATTR_DEVICE_CLASS not in entity.
NoDeviceClass == "<no device class>"
\* dict.get(CONF_AGGREGATES_MIN_ENTITIES) on a dict without the key: None,
\* which is no number (thresholds are 1 and more).
NoThreshold == -1

VARIABLES
    now,                     \* datetime.utcnow()
    sensors,                 \* hass.states of the tracked presence sensors
    entities,                \* hass.states of the secondary-state entities
    config,                  \* the area's configuration (fixed after Init)
    setup,                   \* which steps of entity setup have run
    area_states,             \* self.area.states
    last_changed,            \* self.area.last_changed
    last_off_time,           \* self.last_off_time
    clear_timeout_callback,  \* self.clear_timeout_callback
    scheduled,               \* call_later callbacks not yet fired or cancelled
    published,               \* the area-state-changed event the last handler sent
    attributes,              \* self._attributes: ATTR_STATES, ATTR_CLEAR_TIMEOUT
    trace,                   \* history of the last handler, for the properties
    area_entities,           \* area.entities[BINARY_SENSOR_DOMAIN], by entity
    features,                \* the enabled features and the aggregates' threshold
    added                    \* what add_sensors gave async_add_entities

\* The platform setup's own state.
platform_vars == << area_entities, features, added >>

\* The presence sensor's state.
presence_vars ==
    << now, sensors, entities, config, setup, area_states, last_changed,
       last_off_time, clear_timeout_callback, scheduled, published,
       attributes, trace >>

vars == << presence_vars, platform_vars >>

\* ---------------------------------------------------------------- the area

\* The mutable fields an evaluation reads and writes.
Self ==
    [ states |-> area_states,
      last_changed |-> last_changed,
      callback |-> clear_timeout_callback,
      scheduled |-> scheduled,
      sensors |-> sensors,
      entities |-> entities ]

has_state(o, state) == state \in o.states

is_occupied(o) == has_state(o, AREA_STATE_OCCUPIED)

\* BinarySensorBase.get_sensors_state in "single" mode.
get_sensors_state(o, valid_states) ==
    \E s \in Sensors : o.sensors[s] \in valid_states

get_configured_secondary_states ==
    { c \in ConfigurableStates : config.secondary[c] }

\* ------------------------------------------------------------ clear timeout

\* get_clear_timeout with the extended state looked at before sleep.
get_clear_timeout_extended_first(o) ==
    IF has_state(o, AREA_STATE_EXTENDED) THEN ExtendedTimeout
    ELSE IF has_state(o, AREA_STATE_SLEEP) THEN SleepTimeout
    ELSE ClearTimeout

get_clear_timeout(o) ==
    IF has_state(o, AREA_STATE_SLEEP) THEN SleepTimeout
    ELSE IF has_state(o, AREA_STATE_EXTENDED) THEN ExtendedTimeout
    ELSE ClearTimeout

\* call_later returns a new cancel handle.
NewHandle(o) ==
    CHOOSE h \in 1..(Cardinality(o.scheduled) + 2) :
        /\ h # o.callback
        /\ \A c \in o.scheduled : c.handle # h

call_later(o, delay) ==
    LET h == NewHandle(o)
    IN [o EXCEPT !.callback = h,
                 !.scheduled = @ \cup {[handle |-> h, at |-> now + delay]}]

set_clear_timeout(o) ==
    IF ~is_occupied(o) THEN o
    ELSE call_later(o, get_clear_timeout(o))

\* remove_clear_timeout dropping the handle without calling it.
remove_clear_timeout_uncancelled(o) ==
    IF o.callback = None THEN o
    ELSE [o EXCEPT !.callback = None]

remove_clear_timeout(o) ==
    IF o.callback = None THEN o
    ELSE [o EXCEPT !.callback = None,
                   !.scheduled = {c \in @ : c.handle # o.callback}]

\* What the two calls return: False on the early return, None at the end.
set_clear_timeout_returns(o) ==
    IF ~is_occupied(o) THEN "False" ELSE "None"

remove_clear_timeout_returns(o) ==
    IF o.callback = None THEN "False" ELSE "None"

is_on_clear_timeout(o) == o.callback # None

\* timeout_exceeded leaving the handle in place.
timeout_exceeded_keeping_handle(o) ==
    IF ~is_occupied(o) THEN [result |-> FALSE, self |-> o]
    ELSE IF now >= last_off_time + get_clear_timeout(o)
         THEN [result |-> TRUE, self |-> o]
         ELSE [result |-> FALSE, self |-> o]

\* Returns the answer and the object as the call leaves it.
timeout_exceeded(o) ==
    IF ~is_occupied(o) THEN [result |-> FALSE, self |-> o]
    ELSE IF now >= last_off_time + get_clear_timeout(o)
         THEN [result |-> TRUE, self |-> remove_clear_timeout(o)]
         ELSE [result |-> FALSE, self |-> o]

\* ------------------------------------------------------------- evaluation

valid_on_states == IF config.is_meta THEN {STATE_ON} ELSE CONF_ON_STATES

\* Line 425-426: occupancy is lost when the timeout is exceeded.
unless_exceeded(t) == [result |-> ~t.result, self |-> t.self]

\* get_occupancy_state with the timeout looked at before the sensors.
get_occupancy_state_timeout_first(o) ==
    IF ~is_occupied(o) /\ ~get_sensors_state(o, valid_on_states)
    THEN [result |-> FALSE, self |-> o]
    ELSE IF is_on_clear_timeout(o)
         THEN unless_exceeded(timeout_exceeded(o))
         ELSE IF ~get_sensors_state(o, valid_on_states)
              THEN [result |-> TRUE, self |-> set_clear_timeout(o)]
              ELSE [result |-> TRUE, self |-> remove_clear_timeout(o)]

\* get_occupancy_state testing the timeout whether or not a handle is held.
get_occupancy_state_one_step(o) ==
    IF ~get_sensors_state(o, valid_on_states)
    THEN IF ~is_occupied(o) THEN [result |-> FALSE, self |-> o]
         ELSE IF timeout_exceeded(o).result
              THEN unless_exceeded(timeout_exceeded(o))
              ELSE IF is_on_clear_timeout(o)
                   THEN [result |-> TRUE, self |-> o]
                   ELSE [result |-> TRUE, self |-> set_clear_timeout(o)]
    ELSE [result |-> TRUE, self |-> remove_clear_timeout(o)]

get_occupancy_state(o) ==
    IF ~get_sensors_state(o, valid_on_states)
    THEN IF ~is_occupied(o) THEN [result |-> FALSE, self |-> o]
         ELSE IF is_on_clear_timeout(o)
              THEN unless_exceeded(timeout_exceeded(o))
              ELSE [result |-> TRUE, self |-> set_clear_timeout(o)]
    ELSE [result |-> TRUE, self |-> remove_clear_timeout(o)]

\* Lines 324-334: last_changed is set when the occupancy computed (occ)
\* differs from the one the area holds.
track_last_changed(o, occ) ==
    IF occ.result # is_occupied(o)
    THEN [occ.self EXCEPT !.last_changed = now]
    ELSE occ.self

\* The comparison of the secondary-state loop without lower().
SecondaryMatchesExact(o, configurable_state) ==
    o.entities[configurable_state] = ConfiguredValue(configurable_state)

\* The secondary-state loop: entity.state.lower() == value.lower().
SecondaryMatches(o, configurable_state) ==
    Lower(o.entities[configurable_state])
        = Lower(ConfiguredValue(configurable_state))

\* Lines 381-383: bright when dark is configurable and not in the states.
with_bright(states) ==
    IF AREA_STATE_DARK \in get_configured_secondary_states
       /\ AREA_STATE_DARK \notin states
    THEN states \cup {AREA_STATE_BRIGHT}
    ELSE states

\* Lines 326-379: the states list for the occupancy current_state, o1 being
\* the object once last_changed is set.
list_states(o1, current_state) ==
    with_bright(
        (IF current_state THEN {AREA_STATE_OCCUPIED} ELSE {AREA_STATE_CLEAR})
        \cup (IF current_state /\ now - o1.last_changed >= ExtendedTime
              THEN {AREA_STATE_EXTENDED} ELSE {})
        \cup (IF AREA_STATE_DARK \notin get_configured_secondary_states
              THEN {AREA_STATE_DARK} ELSE {})
        \cup {c \in get_configured_secondary_states : SecondaryMatches(o1, c)} )

\* Lines 323-385 once get_occupancy_state has returned occ.
\* "raised" is the AttributeError of entity.state on a missing entity.
area_states_after(o, occ) ==
    [ raised |-> \E c \in get_configured_secondary_states :
                    o.entities[c] = NoEntity,
      states |-> list_states(track_last_changed(o, occ), occ.result),
      self |-> track_last_changed(o, occ) ]

get_area_states(o) == area_states_after(o, get_occupancy_state(o))

EmptyDiff == << {}, {} >>

\* The last handler sent no event.
NoEvent == << >>

\* Lines 393-410 reporting no lost states.
diff_states_no_lost(o, r) ==
    IF r.raised
    THEN [raised |-> TRUE, diff |-> EmptyDiff, self |-> r.self]
    ELSE IF o.states = r.states
         THEN [raised |-> FALSE, diff |-> EmptyDiff, self |-> r.self]
         ELSE [ raised |-> FALSE,
                diff |-> << r.states \ o.states, {} >>,
                self |-> [r.self EXCEPT !.states = r.states] ]

\* Lines 393-410 adding the computed states to the ones held.
diff_states_merging(o, r) ==
    IF r.raised
    THEN [raised |-> TRUE, diff |-> EmptyDiff, self |-> r.self]
    ELSE IF o.states = r.states
         THEN [raised |-> FALSE, diff |-> EmptyDiff, self |-> r.self]
         ELSE [ raised |-> FALSE,
                diff |-> << r.states \ o.states, o.states \ r.states >>,
                self |-> [r.self EXCEPT !.states = o.states \cup r.states] ]

\* Lines 393-410: last_state is o.states, current_state is r.states, r being
\* what get_area_states returned.
diff_states(o, r) ==
    IF r.raised
    THEN [raised |-> TRUE, diff |-> EmptyDiff, self |-> r.self]
    ELSE IF o.states = r.states
         THEN [raised |-> FALSE, diff |-> EmptyDiff, self |-> r.self]
         ELSE [ raised |-> FALSE,
                diff |-> << r.states \ o.states, o.states \ r.states >>,
                self |-> [r.self EXCEPT !.states = r.states] ]

update_area_states(o) == diff_states(o, get_area_states(o))

\* The payload left as update_area_states returned it.
states_tuple_unwidened(u) == u.diff

\* The payload update_state hands to report_state_change: u is what
\* update_area_states returned.
states_tuple(u) ==
    IF \E state \in {AREA_STATE_OCCUPIED, AREA_STATE_CLEAR} : state \in u.diff[1]
    THEN << u.self.states, {} >>
    ELSE u.diff

\* Lines 443-461 once update_area_states has returned u.
report_state_change(u) ==
    [ raised |-> u.raised,
      diff |-> u.diff,
      payload |-> IF u.raised THEN NoEvent ELSE states_tuple(u),
      self |-> u.self ]

update_state(o) == report_state_change(update_area_states(o))

\* self._attributes = {}: an attribute that is not set is the empty set, one
\* that is set the set of its value.
NoAttributes == [states |-> {}, clear_timeout |-> {}]

\* load_attributes with "states" what get_area_states returned.
load_attributes(states) == [states |-> states, clear_timeout |-> {}]

\* update_attributes on the object update_area_states left.
update_attributes(o) ==
    [states |-> o.states, clear_timeout |-> {get_clear_timeout(o)}]

\* ------------------------------------------------------------------ history

AllOff == ~get_sensors_state(Self, valid_on_states)

\* runs: 0 when the last handler completed no evaluation, 1 after a completed
\* update_state, 2 when that update_state followed another with no change of
\* any input or of the clock in between.
\* previous: area.states as the last update_state found it.
\* diff: what its update_area_states returned.
\* all_off_at: when the last tracked sensor turned off with the area occupied
\* (-1 while a sensor is on, or when no such turn-off has been seen).
\* switched_at: when area.states last went from occupied to not occupied or
\* back (the time of construction before the first switch).
\* returned: the method called directly by the last step and what it
\* returned (NoCall when the last step was a handler).
\* raised: the last handler called update_state and it raised.
NoCall == << >>

NoTrace ==
    [ runs |-> 0, previous |-> {}, diff |-> EmptyDiff,
      all_off_at |-> -1, switched_at |-> 0, returned |-> NoCall,
      raised |-> FALSE ]

\* The history after a handler that completed no evaluation.
Idle(all_off_at) ==
    [NoTrace EXCEPT !.all_off_at = all_off_at, !.switched_at = trace.switched_at]

\* switched_at once area.states holds the set "states".
SwitchedAt(states) ==
    IF (AREA_STATE_OCCUPIED \in states) # (AREA_STATE_OCCUPIED \in area_states)
    THEN now
    ELSE trace.switched_at

\* The state after update_state(o) returned (or raised).
Evaluated(o, runs, all_off_at) ==
    \E r \in {update_state(o)} :
        /\ area_states' = r.self.states
        /\ last_changed' = r.self.last_changed
        /\ clear_timeout_callback' = r.self.callback
        /\ scheduled' = r.self.scheduled
        /\ published' = r.payload
        /\ attributes' = IF r.raised THEN attributes
                         ELSE update_attributes(r.self)
        /\ trace' = IF r.raised
                    THEN [Idle(all_off_at) EXCEPT !.raised = TRUE]
                    ELSE [ runs |-> runs, previous |-> area_states,
                           diff |-> r.diff, all_off_at |-> all_off_at,
                           switched_at |-> SwitchedAt(r.self.states),
                           returned |-> NoCall, raised |-> FALSE ]

\* The listeners of _setup_listeners are registered and not yet released.
Running ==
    /\ "initialize" \in setup
    /\ "restore" \in setup
    /\ "removed" \notin setup

\* Entity setup is over, with or without listeners.
SetupDone == "restore" \in setup /\ setup # {"restore"}

\* ------------------------------------------------------------------ actions

\* add_sensors has created the presence sensor of an area without further
\* binary sensors or features.
PresenceOnly ==
    /\ area_entities = [e \in EntityIds |-> NoSensor]
    /\ features = [enabled |-> {}, min_entities |-> NoThreshold]
    /\ added = [ entities |-> {[kind |-> "presence", device_class |-> "occupancy"]},
                 status |-> "returned" ]

Init ==
    /\ PresenceOnly
    /\ now = 0
    /\ sensors \in [Sensors -> {"on", "off", "home", "not_home"}]
    /\ \A s \in Sensors : sensors[s] \in SensorValues(s)
    /\ config \in [ is_meta : BOOLEAN,
                    secondary : [ConfigurableStates -> BOOLEAN] ]
    /\ entities \in [ConfigurableStates -> EntityValues]
    /\ \A c \in ConfigurableStates : ~config.secondary[c] => entities[c] = NoEntity
    /\ setup = {}
    /\ area_states = {}
    /\ last_changed = 0
    /\ last_off_time = 0
    /\ clear_timeout_callback = None
    /\ scheduled = {}
    /\ published = NoEvent
    /\ attributes = NoAttributes
    /\ trace = NoTrace

\* _initialize: load_attributes evaluates get_area_states for its side effects
\* on the timer and last_changed, then the listeners are set up.
Initialize ==
    /\ "initialize" \notin setup
    /\ "failed" \notin setup
    /\ \E r \in { IF config.is_meta
                  THEN [raised |-> FALSE, states |-> {}, self |-> Self]
                  ELSE get_area_states(Self) } :
          /\ setup' = setup \cup {IF r.raised THEN "failed" ELSE "initialize"}
          /\ last_changed' = r.self.last_changed
          /\ clear_timeout_callback' = r.self.callback
          /\ scheduled' = r.self.scheduled
          /\ attributes' = IF r.raised THEN NoAttributes
                           ELSE load_attributes(r.states)
    /\ published' = NoEvent
    /\ trace' = Idle(trace.all_off_at)
    /\ UNCHANGED << now, sensors, entities, config, area_states, last_off_time,
                    platform_vars >>

\* restore_state of a newly added entity evaluating as if the area had held
\* {clear, dark} before.
RestoreNewFromClear ==
    /\ "restore" \notin setup
    /\ setup' = setup \cup {"restore"}
    /\ Evaluated([Self EXCEPT !.states = {AREA_STATE_CLEAR, AREA_STATE_DARK}],
                 1, trace.all_off_at)
    /\ UNCHANGED << now, sensors, entities, config, last_off_time,
                    platform_vars >>

\* restore_state of a newly added entity: update_state.
RestoreNew ==
    /\ "restore" \notin setup
    /\ setup' = setup \cup {"restore"}
    /\ Evaluated(Self, 1, trace.all_off_at)
    /\ UNCHANGED << now, sensors, entities, config, last_off_time,
                    platform_vars >>

\* restore_state of a known entity: the persisted state set, no evaluation.
RestoreLast ==
    /\ "restore" \notin setup
    /\ setup' = setup \cup {"restore"}
    /\ \E last \in RestoredStates : area_states' = last
    /\ trace' = Idle(trace.all_off_at)
    /\ published' = NoEvent
    /\ UNCHANGED << now, sensors, entities, config, last_changed, last_off_time,
                    clear_timeout_callback, scheduled, attributes,
                    platform_vars >>

\* The clock moves on once the callbacks due now have run.
AdvanceTime ==
    /\ SetupDone
    /\ now < MaxTime
    /\ \A c \in scheduled : c.at > now
    /\ now' = now + 1
    /\ published' = NoEvent
    /\ trace' = Idle(trace.all_off_at)
    /\ UNCHANGED << sensors, entities, config, setup, area_states, last_changed,
                    last_off_time, clear_timeout_callback, scheduled, attributes,
                    platform_vars >>

\* The history of the all-off period once the sensors read sv.
AllOffAt(sv) ==
    IF \E s \in Sensors : sv[s] \in valid_on_states THEN -1
    ELSE IF ~AllOff THEN (IF is_occupied(Self) THEN now ELSE -1)
    ELSE trace.all_off_at

\* An update_state that follows another with nothing changed in between.
Again == IF trace.runs >= 1 THEN 2 ELSE 1

\* sensor_state_change: a tracked sensor reports a new value.
SensorChange ==
    /\ Running
    /\ \E s \in Sensors : \E v \in SensorValues(s) :
        /\ v # sensors[s]
        /\ sensors' = [sensors EXCEPT ![s] = v]
        /\ Evaluated([Self EXCEPT !.sensors = sensors'], 1, AllOffAt(sensors'))
    /\ UNCHANGED << now, entities, config, setup, last_off_time,
                    platform_vars >>

\* secondary_state_change without the test for INVALID_STATES.
SecondaryChangeUnfiltered ==
    /\ Running
    /\ \E c \in get_configured_secondary_states, v \in EntityValues :
        /\ v # entities[c]
        /\ entities' = [entities EXCEPT ![c] = v]
        /\ IF v = NoEntity
           THEN /\ published' = NoEvent
                /\ trace' = Idle(trace.all_off_at)
                /\ UNCHANGED << area_states, last_changed,
                                clear_timeout_callback, scheduled, attributes >>
           ELSE Evaluated([Self EXCEPT !.entities = entities'], 1,
                          trace.all_off_at)
    /\ UNCHANGED << now, sensors, config, setup, last_off_time,
                    platform_vars >>

\* secondary_state_change: a tracked secondary-state entity reports a new
\* value, or leaves the state machine (to_state is None: to_state.state raises).
SecondaryChange ==
    /\ Running
    /\ \E c \in get_configured_secondary_states, v \in EntityValues :
        /\ v # entities[c]
        /\ entities' = [entities EXCEPT ![c] = v]
        /\ IF v = NoEntity \/ v \in INVALID_STATES
           THEN /\ published' = NoEvent
                /\ trace' = Idle(trace.all_off_at)
                /\ UNCHANGED << area_states, last_changed,
                                clear_timeout_callback, scheduled, attributes >>
           ELSE Evaluated([Self EXCEPT !.entities = entities'], 1,
                          trace.all_off_at)
    /\ UNCHANGED << now, sensors, config, setup, last_off_time,
                    platform_vars >>

\* refresh_states on the periodic tick (async_track_time_interval).
Tick ==
    /\ Running
    /\ Evaluated(Self, Again, trace.all_off_at)
    /\ UNCHANGED << now, sensors, entities, config, setup, last_off_time,
                    platform_vars >>

\* refresh_states from the clear-timeout callback (call_later): the callback
\* leaves the scheduler, the handle stays in clear_timeout_callback.
TimerFire ==
    /\ \E c \in scheduled :
        /\ c.at <= now
        /\ Evaluated([Self EXCEPT !.scheduled = @ \ {c}], Again,
                     trace.all_off_at)
    /\ UNCHANGED << now, sensors, entities, config, setup, last_off_time,
                    platform_vars >>

\* The entity is removed: the callbacks handed to async_on_remove run, which
\* release the state listeners and the periodic tick.
Remove ==
    /\ Running
    /\ setup' = setup \cup {"removed"}
    /\ published' = NoEvent
    /\ trace' = Idle(trace.all_off_at)
    /\ UNCHANGED << now, sensors, entities, config, area_states, last_changed,
                    last_off_time, clear_timeout_callback, scheduled, attributes,
                    platform_vars >>

Next ==
    \/ Initialize
    \/ RestoreNew
    \/ RestoreLast
    \/ AdvanceTime
    \/ SensorChange
    \/ SecondaryChange
    \/ Tick
    \/ TimerFire
    \/ Remove

Spec == Init /\ [][Next]_vars

\* The same system for one configuration, a plain area with a dark entity
\* and no sleep entity, under the weak fairness the event loop gives: the
\* periodic tick keeps coming, a due call_later callback runs, the clock
\* advances.
DarkAreaInit ==
    /\ Init
    /\ ~config.is_meta
    /\ config.secondary[AREA_STATE_DARK]
    /\ ~config.secondary[AREA_STATE_SLEEP]

FairDarkAreaSpec ==
    /\ DarkAreaInit
    /\ [][Next]_vars
    /\ WF_vars(Tick)
    /\ WF_vars(TimerFire)
    /\ WF_vars(AdvanceTime)

\* ------------------------------------------------- the timer calls alone

\* The object in the states the handlers leave it in, at any time: no handle
\* held, or for an occupied area a handle whose callback is pending or has
\* fired.
TimerInit ==
    /\ PresenceOnly
    /\ now \in 0..MaxTime
    /\ sensors \in [Sensors -> {"on", "off", "home", "not_home"}]
    /\ \A s \in Sensors : sensors[s] \in SensorValues(s)
    /\ config \in [ is_meta : BOOLEAN,
                    secondary : [ConfigurableStates -> BOOLEAN] ]
    /\ entities = [c \in ConfigurableStates |->
                      IF config.secondary[c] THEN "off" ELSE NoEntity]
    /\ setup = {"initialize", "restore"}
    /\ area_states \in RestoredStates
    /\ last_changed = 0
    /\ last_off_time = 0
    /\ clear_timeout_callback \in {None, 1}
    /\ clear_timeout_callback # None => AREA_STATE_OCCUPIED \in area_states
    /\ scheduled \in
          IF clear_timeout_callback = None THEN { {} }
          ELSE { {}, {[handle |-> clear_timeout_callback,
                       at |-> now + get_clear_timeout([states |-> area_states])]} }
    /\ published = NoEvent
    /\ attributes = update_attributes([states |-> area_states])
    /\ trace = NoTrace

\* One direct call of a timer method on the object as it stands.
Called(method, value, o) ==
    /\ trace.returned = NoCall
    /\ trace' = [trace EXCEPT !.returned = << method, value >>]
    /\ clear_timeout_callback' = o.callback
    /\ scheduled' = o.scheduled
    /\ UNCHANGED << now, sensors, entities, config, setup, area_states,
                    last_changed, last_off_time, published, attributes,
                    platform_vars >>

SetClearTimeout ==
    Called("set_clear_timeout", set_clear_timeout_returns(Self),
           set_clear_timeout(Self))

RemoveClearTimeout ==
    Called("remove_clear_timeout", remove_clear_timeout_returns(Self),
           remove_clear_timeout(Self))

TimerNext ==
    \/ SetClearTimeout
    \/ RemoveClearTimeout

TimerSpec == TimerInit /\ [][TimerNext]_vars

\* ------------------------------------------------------- platform setup

has_feature(feature) == feature \in features.enabled

\* area.feature_config(CONF_FEATURE_AGGREGATION).get(CONF_AGGREGATES_MIN_ENTITIES):
\* the options of a feature that is not enabled are the empty dict.
aggregates_min_entities ==
    IF has_feature(CONF_FEATURE_AGGREGATION)
    THEN features.min_entities
    ELSE NoThreshold

\* BINARY_SENSOR_DOMAIN in area.entities
has_binary_sensors == \E e \in EntityIds : area_entities[e] # NoSensor

\* device_class_count[device_class]
device_class_count(device_class) ==
    Cardinality({e \in EntityIds : area_entities[e] = device_class})

\* distress_entities
distress_entities ==
    {e \in EntityIds : area_entities[e] \in DISTRESS_SENSOR_CLASSES}

AreaPresenceBinarySensor == [kind |-> "presence", device_class |-> "occupancy"]
AreaSensorGroupBinarySensor(device_class) ==
    [kind |-> "aggregate", device_class |-> device_class]
AreaDistressBinarySensor == [kind |-> "health", device_class |-> "problem"]

\* The entity_count < threshold test: int < None raises TypeError.
below_threshold(entity_count, threshold) ==
    [ raised |-> threshold = NoThreshold,
      result |-> IF threshold = NoThreshold THEN FALSE
                 ELSE entity_count < threshold ]

\* The entities create_aggregate_sensors adds (aggregation is enabled whenever
\* its threshold is compared).
create_aggregate_sensors ==
    IF ~has_feature(CONF_FEATURE_AGGREGATION) THEN {}
    ELSE IF ~has_binary_sensors THEN {}
    ELSE { AreaSensorGroupBinarySensor(dc) :
             dc \in { d \in DeviceClasses :
                        /\ device_class_count(d) > 0
                        /\ ~below_threshold(device_class_count(d),
                                            aggregates_min_entities).result } }

\* The entities create_health_sensors adds, or the TypeError it raises.
create_health_sensors ==
    IF ~has_feature(CONF_FEATURE_HEALTH) THEN [raised |-> FALSE, entities |-> {}]
    ELSE IF ~has_binary_sensors THEN [raised |-> FALSE, entities |-> {}]
    ELSE IF below_threshold(Cardinality(distress_entities),
                            aggregates_min_entities).raised
         THEN [raised |-> TRUE, entities |-> {}]
         ELSE IF below_threshold(Cardinality(distress_entities),
                                 aggregates_min_entities).result
              THEN [raised |-> FALSE, entities |-> {}]
              ELSE [raised |-> FALSE, entities |-> {AreaDistressBinarySensor}]

add_sensors ==
    [ entities |-> {AreaPresenceBinarySensor}
                   \cup (IF has_feature(CONF_FEATURE_AGGREGATION)
                         THEN create_aggregate_sensors ELSE {})
                   \cup (IF has_feature(CONF_FEATURE_HEALTH)
                         THEN create_health_sensors.entities ELSE {}),
      status |-> IF has_feature(CONF_FEATURE_HEALTH) /\ create_health_sensors.raised
                 THEN "raised" ELSE "returned" ]

\* An area with any binary sensors and features, before add_sensors runs.
PlatformInit ==
    /\ area_entities \in
          [EntityIds -> DeviceClasses \cup {NoDeviceClass, NoSensor}]
    /\ features \in
          UNION { { [enabled |-> en, min_entities |-> n] :
                      n \in IF CONF_FEATURE_AGGREGATION \in en
                            THEN 1..MaxEntities ELSE {NoThreshold} } :
                  en \in SUBSET {CONF_FEATURE_AGGREGATION, CONF_FEATURE_HEALTH} }
    /\ added = [entities |-> {}, status |-> "not run"]
    /\ now = 0
    /\ sensors = [s \in Sensors |->
                    IF s = "binary_sensor.motion" THEN "off" ELSE "not_home"]
    /\ config = [ is_meta |-> FALSE,
                  secondary |-> [c \in ConfigurableStates |-> FALSE] ]
    /\ entities = [c \in ConfigurableStates |-> NoEntity]
    /\ setup = {}
    /\ area_states = {}
    /\ last_changed = 0
    /\ last_off_time = 0
    /\ clear_timeout_callback = None
    /\ scheduled = {}
    /\ published = NoEvent
    /\ attributes = NoAttributes
    /\ trace = NoTrace

AddSensors ==
    /\ added.status = "not run"
    /\ added' = add_sensors
    /\ UNCHANGED << area_entities, features, presence_vars >>

PlatformNext == AddSensors

PlatformSpec == PlatformInit /\ [][PlatformNext]_vars

\* --------------------------------------------------------------- properties

Occupied == AREA_STATE_OCCUPIED \in area_states
Clear == AREA_STATE_CLEAR \in area_states
WasOccupied == AREA_STATE_OCCUPIED \in trace.previous
WasClear == AREA_STATE_CLEAR \in trace.previous

\* The last handler completed an update_state.
JustEvaluated == trace.runs >= 1

\* The clear timeout in force for an area holding the states "states".
TimeoutFor(states) == get_clear_timeout([states |-> states])

\* C1 (falling edge, no early clear): when the last tracked sensor turned off
\* at time T with the area occupied and no sensor re-activated, an update_state
\* that moves the area from occupied to clear runs at T + clear timeout or
\* later.
C1_NoEarlyClear ==
    (JustEvaluated /\ trace.all_off_at >= 0 /\ WasOccupied /\ ~Occupied)
        => now >= trace.all_off_at + TimeoutFor(trace.previous)

\* C2 (rising edge): after an update_state during which a tracked presence
\* sensor has a value in the on-value set, the area state set contains
\* occupied and not clear.
C2_RisingEdge ==
    (JustEvaluated /\ ~AllOff) => (Occupied /\ ~Clear)

\* The area was clear, with a sensor on the evaluation made it occupied.
C2_Witness ==
    JustEvaluated /\ ~AllOff /\ WasClear /\ Occupied /\ now > 0

\* C3 (re-activation without flicker): when a sensor turns on again before the
\* clear timeout has elapsed since all sensors turned off with the area
\* occupied, the area has stayed occupied, stays occupied, the pending clear
\* is cancelled and the event sent reports neither clear nor occupied as new.
C3_ReactivationNoFlicker ==
    [][ ( /\ trace.all_off_at >= 0
          /\ now < trace.all_off_at + TimeoutFor(area_states)
          /\ ~AllOff' )
        => ( /\ Occupied
             /\ Occupied'
             /\ clear_timeout_callback' = None
             /\ scheduled' = {}
             /\ \/ published' = NoEvent
                \/ published'[1] \cap {AREA_STATE_OCCUPIED, AREA_STATE_CLEAR} = {} )
      ]_vars

\* C4 (idempotence): an update_state that follows another one with no change
\* of any input in between reports the empty (new, lost) pair and leaves the
\* area state set as it found it.
C4_Idempotent ==
    trace.runs = 2 => (published = EmptyDiff /\ area_states = trace.previous)

\* The evaluation changed the area between occupied and clear.
CoreTransition ==
    JustEvaluated /\ ((WasOccupied /\ Clear) \/ (WasClear /\ Occupied))

\* C6 (core-transition widening): when an update_state changes the area
\* between occupied and clear, the "new" component of the event is the whole
\* state set the area holds after the evaluation.
C6_Widening ==
    CoreTransition => (published # NoEvent /\ published[1] = area_states)

\* A core transition with a secondary state carried over unchanged: the event
\* names more than the states that differ.
C6_Witness ==
    /\ CoreTransition
    /\ trace.previous \cap area_states # {}
    /\ published[1] # trace.diff[1]

\* C7 as stated: the event's "lost" component is previous minus current, and
\* going from {occupied, dark} to {clear, dark} the event is
\* ({clear}, {occupied}).
C7_PublishedIsDiff ==
    (JustEvaluated /\ published # NoEvent)
        => /\ published[2] = trace.previous \ area_states
           /\ ( /\ trace.previous = {AREA_STATE_OCCUPIED, AREA_STATE_DARK}
                /\ area_states = {AREA_STATE_CLEAR, AREA_STATE_DARK} )
              => published = << {AREA_STATE_CLEAR}, {AREA_STATE_OCCUPIED} >>

\* C7 amended: update_area_states returns new = current - previous and
\* lost = previous - current, so its "lost" contains occupied on every
\* occupied-to-clear transition; the event carries that pair only when neither
\* occupied nor clear is new, and otherwise (whole current state set, {}).
C7_DiffAndEvent ==
    JustEvaluated
        => /\ trace.diff = << area_states \ trace.previous,
                              trace.previous \ area_states >>
           /\ (WasOccupied /\ Clear) => AREA_STATE_OCCUPIED \in trace.diff[2]
           /\ published =
                IF trace.diff[1] \cap {AREA_STATE_OCCUPIED, AREA_STATE_CLEAR} # {}
                THEN << area_states, {} >>
                ELSE trace.diff

\* The area went from {occupied, dark} to {clear, dark}.
C7_Witness ==
    /\ JustEvaluated
    /\ trace.previous = {AREA_STATE_OCCUPIED, AREA_STATE_DARK}
    /\ area_states = {AREA_STATE_CLEAR, AREA_STATE_DARK}
    /\ trace.diff = << {AREA_STATE_CLEAR}, {AREA_STATE_OCCUPIED} >>
    /\ published = << {AREA_STATE_CLEAR, AREA_STATE_DARK}, {} >>

\* C8 (core pair exclusivity): after every completed update_state the area
\* state set contains exactly one of occupied and clear.
C8_ExactlyOneCore ==
    JustEvaluated => (Occupied # Clear)

\* The first evaluation of an area whose restored state set was empty.
C8_Witness ==
    /\ JustEvaluated
    /\ trace.previous = {}
    /\ "initialize" \in setup
    /\ Occupied

DarkConfigured == config.secondary[AREA_STATE_DARK]

\* The dark entity's value equals the configured value "On" up to case.
DarkValueMatches == entities[AREA_STATE_DARK] \in {"on", "On", "ON", "oN"}

\* C9 (dark/bright overlay): after every update_state, with no dark entity
\* configured the state set contains dark and not bright; with one configured
\* it contains exactly one of dark and bright, dark exactly when the entity's
\* value matches the configured value case-insensitively.
C9_DarkBright ==
    JustEvaluated
        => IF ~DarkConfigured
           THEN AREA_STATE_DARK \in area_states /\ AREA_STATE_BRIGHT \notin area_states
           ELSE /\ (AREA_STATE_DARK \in area_states) # (AREA_STATE_BRIGHT \in area_states)
                /\ (AREA_STATE_DARK \in area_states) <=> DarkValueMatches

\* The dark entity reports "on", the configured value is "On": dark is set.
C9_Witness ==
    /\ JustEvaluated
    /\ DarkConfigured
    /\ entities[AREA_STATE_DARK] = "on"
    /\ AREA_STATE_DARK \in area_states
    /\ AREA_STATE_BRIGHT \in trace.previous

\* C5 (eventual clear): with the listeners set up, an occupied area whose
\* tracked sensors are all off and stay off eventually holds clear and not
\* occupied, with no timer handle held and no callback pending, unless the
\* entity is removed first.
C5_EventualClear ==
    (Running /\ Occupied /\ AllOff)
        ~> ( \/ ~AllOff
             \/ ~Running
             \/ ( /\ Clear
                  /\ ~Occupied
                  /\ clear_timeout_callback = None
                  /\ scheduled = {} ) )

\* C10 (extended overlay): after every update_state, extended is in the state
\* set exactly when the area is occupied and extended_time seconds or more
\* have passed since it last switched between clear and occupied.
C10_Extended ==
    JustEvaluated
        => ( (AREA_STATE_EXTENDED \in area_states)
                <=> (Occupied /\ now - trace.switched_at >= ExtendedTime) )

\* C11 (single timer): at most one clear-timeout callback is pending and it
\* is the one whose handle is held; a callback is scheduled only by a handler
\* that starts with no handle held; a handle that is replaced or dropped has
\* no callback pending any more.
C11_SingleTimer ==
    [][ /\ Cardinality(scheduled') <= 1
        /\ \A c \in scheduled' : c.handle = clear_timeout_callback'
        /\ (scheduled' \ scheduled # {}) => clear_timeout_callback = None
        /\ ( /\ clear_timeout_callback # None
             /\ clear_timeout_callback' # clear_timeout_callback )
           => \A c \in scheduled' : c.handle # clear_timeout_callback
      ]_vars

\* A timeout armed after time 0, pending, its handle held.
C11_Witness ==
    /\ now > 0
    /\ \E c \in scheduled : c.handle = clear_timeout_callback /\ c.at > now
    /\ JustEvaluated
    /\ Occupied
    /\ AllOff

\* C12 (arm rejection): set_clear_timeout called on an area that is not
\* occupied, or with a timer handle held, returns the failure indicator False,
\* schedules no callback and leaves the handle as it was.
C12_ArmRejection ==
    [][ ( /\ SetClearTimeout
          /\ (~Occupied \/ clear_timeout_callback # None) )
        => ( /\ trace'.returned = << "set_clear_timeout", "False" >>
             /\ scheduled' = scheduled
             /\ clear_timeout_callback' = clear_timeout_callback )
      ]_vars

\* C13 (teardown cancels the timer): once the entity is removed no
\* clear-timeout callback is pending, and no evaluation runs for the area.
C13_TeardownCancels ==
    "removed" \in setup => (scheduled = {} /\ ~JustEvaluated)

\* C14 (secondary-state fail-open): with a configured sleep or dark entity
\* missing from the state machine or reporting an invalid value, update_state
\* completes without raising and the state set it leaves does not contain the
\* overlay bound to that entity.
C14_FailOpen ==
    /\ ~trace.raised
    /\ JustEvaluated
         => \A c \in get_configured_secondary_states :
               entities[c] \in INVALID_STATES \cup {NoEntity}
                   => c \notin area_states

\* C15 (timeout duration priority): every callback a handler schedules is due
\* after the sleep timeout when the area state set holds sleep as the timeout
\* is armed, else after the extended timeout when it holds extended, else
\* after the base clear timeout.
C15_TimeoutPriority ==
    [][ \A c \in scheduled' \ scheduled :
            c.at - now = IF AREA_STATE_SLEEP \in area_states
                         THEN SleepTimeout
                         ELSE IF AREA_STATE_EXTENDED \in area_states
                              THEN ExtendedTimeout
                              ELSE ClearTimeout
      ]_vars

\* An area holding both sleep and extended has just armed the sleep timeout.
C15_Witness ==
    /\ JustEvaluated
    /\ {AREA_STATE_SLEEP, AREA_STATE_EXTENDED} \subseteq trace.previous
    /\ \E c \in scheduled : c.at = now + SleepTimeout
    /\ trace.all_off_at = now

\* C16 (first evaluation): the first update_state of a newly created area,
\* run by restore_state with nothing restored, finds the empty state set, and
\* the event it sends has the whole computed state set as "new" and nothing as
\* "lost", whatever the sensors and the secondary-state entities report.
C16_FirstEvaluation ==
    [][ ("restore" \notin setup /\ "restore" \in setup' /\ JustEvaluated')
        => /\ area_states = {}
           /\ trace'.previous = {}
           /\ area_states' # {}
           /\ published' = << area_states', {} >>
      ]_vars

\* The first evaluation found a sensor on and the sleep entity on.
C16_Witness ==
    /\ JustEvaluated
    /\ setup = {"restore"}
    /\ published = << {AREA_STATE_OCCUPIED, AREA_STATE_SLEEP, AREA_STATE_DARK}, {} >>

C18_PublishOrdering ==
    (JustEvaluated \/ trace.raised)
        => /\ published # NoEvent
           /\ published[1] \subseteq area_states
           /\ published[2] \cap area_states = {}
           /\ (area_states = trace.previous) => published = EmptyDiff
           /\ (published = EmptyDiff) => area_states = trace.previous

\* C19 (two-step clearing): the area goes from occupied to clear only in a
\* handler that starts with a timer handle held, and never in the handler of
\* the sensor change that turns the last sensor off.
C19_TwoStepClearing ==
    [][ /\ (Occupied /\ Clear') => clear_timeout_callback # None
        /\ (~AllOff /\ AllOff' /\ Occupied) => (Occupied' /\ ~Clear')
      ]_vars

\* The last sensor turned off, an evaluation kept the area occupied, and the
\* evaluation after it, with nothing changed in between, cleared the area.
C19_Witness ==
    /\ trace.runs = 2
    /\ trace.all_off_at >= 0
    /\ WasOccupied
    /\ Clear
    /\ clear_timeout_callback = None

\* C20 (timer held only while holding occupancy): after every completed
\* update_state, if the area state set contains clear or a tracked sensor was
\* on during the evaluation, no timer handle is held; a handle held means the
\* area is occupied with no sensor on.
C20_TimerOnlyWhileHolding ==
    JustEvaluated
        => /\ (Clear \/ ~AllOff) => ~is_on_clear_timeout(Self)
           /\ is_on_clear_timeout(Self) => (Occupied /\ AllOff)

\* A sensor turned on while the timeout was pending: the handle is dropped.
C20_Witness ==
    /\ JustEvaluated
    /\ ~AllOff
    /\ WasOccupied
    /\ trace.all_off_at = -1
    /\ now > 0
    /\ clear_timeout_callback = None
    /\ published = EmptyDiff

\* C21 (armed flag matches the pending callback): between handlers,
\* is_on_clear_timeout() is true exactly when a clear-timeout callback is
\* pending, scheduled and neither fired nor cancelled.
C21_ArmedMatchesPending ==
    is_on_clear_timeout(Self)
        <=> \E c \in scheduled : c.handle = clear_timeout_callback

\* A secondary-state entity reports a value of the set "values".
SecondaryEvent(values) ==
    \E c \in ConfigurableStates :
        entities'[c] # entities[c] /\ entities'[c] \in values

\* C22 (invalid secondary-state event is a no-op): a secondary-state change to
\* unavailable or unknown runs no evaluation, leaves the area state set,
\* last_changed, the timer handle, the pending callbacks and the entity
\* attributes as they were and sends no event; a change to a valid value runs
\* update_state exactly once.
C22_InvalidEventNoOp ==
    [][ /\ SecondaryEvent(INVALID_STATES)
            => /\ UNCHANGED << area_states, last_changed, clear_timeout_callback,
                               scheduled, attributes >>
               /\ published' = NoEvent
               /\ ~JustEvaluated'
               /\ ~trace'.raised
        /\ SecondaryEvent(EntityValues \ (INVALID_STATES \cup {NoEntity}))
            => \/ trace'.runs = 1
               \/ trace'.raised
      ]_vars

\* The dark entity went to unavailable after an evaluation had found it on:
\* the area and its attributes still say dark.
C22_Witness ==
    /\ Running
    /\ entities[AREA_STATE_DARK] = "unavailable"
    /\ AREA_STATE_DARK \in area_states
    /\ AREA_STATE_DARK \in attributes.states
    /\ attributes.clear_timeout # {}
    /\ ~JustEvaluated
    /\ published = NoEvent

====
